---- MODULE Spec2Model ----
(***************************************************************************)
(* A model of the nano-go-vllm engine: configuration loading, the KV block *)
(* manager, the two-queue scheduler, the engine's Step and Generate.       *)
(*                                                                         *)
(* A prompt is modelled after tokenization, as its token ids; only calls   *)
(* of AddRequest whose Encode succeeded create a sequence (the failing     *)
(* branch returns before NewSequence and changes nothing), and prompts     *)
(* have at least one token (NewSequence reads tokenIDs[len-1]).            *)
(***************************************************************************)
EXTENDS Integers, Sequences, FiniteSets, TLC

(***************************************************************************)
(* Bounds of the model.                                                    *)
(***************************************************************************)
MaxRequests == 2
MaxPromptLen == 3
MaxMaxTokens == 2
VocabSize == 2
OptBlockSize == 2
OptMaxModelLen == 3

(***************************************************************************)
(* Defaults of LoadConfig.                                                 *)
(***************************************************************************)
DefaultMaxNumBatchedTokens == 16384
DefaultMaxNumSeqs == 512
DefaultMaxModelLen == 4096
DefaultKVCacheBlockSize == 256
DefaultNumKVCacheBlocks == -1

\* An option not given, a nil error, a nil result: the empty tuple; a value v
\* that is present: <<v>>.
NoOpt == <<>>
None == <<>>

Vocab == 0 .. (VocabSize - 1)

SequenceStatusWaiting == "Waiting"
SequenceStatusRunning == "Running"
SequenceStatusFinished == "Finished"

VARIABLES
    modelConfig,          \* the fields of the checkpoint's config.json
    config,               \* *config.Config returned by LoadConfig
    maxNumSeqs,           \* Scheduler.maxNumSeqs
    maxNumBatchedTokens,  \* Scheduler.maxNumBatchedTokens
    eosTokenID,           \* Scheduler.eosTokenID
    blockSize,            \* BlockManager.blockSize
    hashSpace,            \* how many values computeHash tells apart; 0: every chunk has its own
    blocks,               \* BlockManager.blocks: id -> Block
    freeBlocks,           \* BlockManager.freeBlocks (a stack, top at the end)
    hashToBlockID,        \* BlockManager.hashToBlockID
    seqs,                 \* the sequences created so far, by ID
    waitingQueue,         \* Scheduler.waitingQueue (IDs)
    runningQueue,         \* Scheduler.runningQueue (IDs)
    pc,                   \* position inside Step: "idle" or "scheduled"
    batch,                \* Step's seqs: the batch Schedule returned
    isPrefill,            \* Step's isPrefill
    tokenIDs,             \* Step's tokenIDs: what Run returned
    stepOutputs,          \* what the last Step returned
    stepErr,              \* the error of the last Step: None or <<the number it names>>
    errOthers,            \* history: sequences that shared a batch with a failed run
    numRunFailures,       \* history: the number of failed runs so far
    genPc,                \* position inside Generate
    genIDs,               \* history: the ID of the sequence made for prompts[i]
    genN,                 \* len(prompts) of the Generate call
    genOutputs,           \* Generate's outputs map: SeqID -> TokenIDs
    genResult,            \* Generate's result: per prompt None or <<TokenIDs>>
    preemptedBefore,      \* history: preempted ID still waiting -> the IDs waiting at its preemption or added since
    sampleCall,           \* the last call of Sampler.Sample: None or <<arguments and result>>
    readCall,             \* the last call of File.ReadRaw: None or <<the file, the arguments and the result>>
    cacheLen              \* Attention.cacheLen, the same in every layer of the model

cfgVars == <<modelConfig, config, maxNumSeqs, maxNumBatchedTokens, eosTokenID, blockSize, hashSpace>>
bmVars == <<blocks, freeBlocks, hashToBlockID>>
schedVars == <<seqs, waitingQueue, runningQueue>>
stepVars == <<pc, batch, isPrefill, tokenIDs, stepOutputs, stepErr, errOthers, numRunFailures>>
genVars == <<genPc, genIDs, genN, genOutputs, genResult>>
histVars == <<preemptedBefore>>
samplerVars == <<sampleCall>>
readerVars == <<readCall>>
runnerVars == <<cacheLen>>
vars == <<cfgVars, bmVars, schedVars, stepVars, genVars, histVars, samplerVars, readerVars, runnerVars>>

(***************************************************************************)
(* Go maps as functions with a growing domain.                             *)
(***************************************************************************)
EmptyMap == [x \in {} |-> 0]
MapPut(m, k, v) == [x \in (DOMAIN m) \cup {k} |-> IF x = k THEN v ELSE m[x]]
MapDelete(m, k) == [x \in (DOMAIN m) \ {k} |-> m[x]]

\* F applied to the value of v, with v computed once.
Eval(v, F(_)) == CHOOSE r \in {F(x) : x \in {v}} : TRUE

\* A function on 1 .. n as a sequence value.
AsSeq(f) == SubSeq(f, 1, Len(f))

Min(a, b) == IF a < b THEN a ELSE b

(***************************************************************************)
(* config.go                                                               *)
(***************************************************************************)
OptOr(opt, default) == IF opt = NoOpt THEN default ELSE opt[1]

\* LoadConfig: the defaults, then the options, then config.json, then the
\* derived pool size. No branch of the config.json block assigns EOSTokenID,
\* so it keeps Go's zero value whatever js.eos_token_id is.
LoadConfig(opts, js) ==
    LET base == [ MaxNumBatchedTokens |-> OptOr(opts.MaxNumBatchedTokens, DefaultMaxNumBatchedTokens),
                  MaxNumSeqs          |-> OptOr(opts.MaxNumSeqs, DefaultMaxNumSeqs),
                  MaxModelLen         |-> OptOr(opts.MaxModelLen, DefaultMaxModelLen),
                  KVCacheBlockSize    |-> OptOr(opts.KVCacheBlockSize, DefaultKVCacheBlockSize),
                  NumKVCacheBlocks    |-> OptOr(opts.NumKVCacheBlocks, DefaultNumKVCacheBlocks),
                  EOSTokenID          |-> 0 ]
        blocksPerSeq0 == (base.MaxModelLen + base.KVCacheBlockSize - 1) \div base.KVCacheBlockSize
        blocksPerSeq == IF blocksPerSeq0 < 1 THEN 1 ELSE blocksPerSeq0
    IN  IF base.NumKVCacheBlocks <= 0
        THEN [base EXCEPT !.NumKVCacheBlocks = blocksPerSeq * 2]
        ELSE base

(***************************************************************************)
(* sequence.go                                                             *)
(***************************************************************************)
NewSequence(tokens, params) ==
    [ Status          |-> SequenceStatusWaiting,
      TokenIDs        |-> AsSeq(tokens),
      LastToken       |-> tokens[Len(tokens)],
      NumTokens       |-> Len(tokens),
      NumPromptTokens |-> Len(tokens),
      NumCachedTokens |-> 0,
      BlockTable      |-> <<>>,
      MaxTokens       |-> params.MaxTokens,
      IgnoreEOS       |-> params.IgnoreEOS ]

NumCompletionTokens(s) == s.NumTokens - s.NumPromptTokens

\* A CompletionTokenIDs that returns only the newest token.
CompletionTokenIDsLastOnly(s) == <<s.LastToken>>

CompletionTokenIDs(s) == SubSeq(s.TokenIDs, s.NumPromptTokens + 1, Len(s.TokenIDs))

\* An AppendToken that forgets the counter.
AppendTokenNoCount(s, tokenID) ==
    [s EXCEPT !.TokenIDs = Append(@, tokenID),
              !.LastToken = tokenID]

AppendToken(s, tokenID) ==
    [s EXCEPT !.TokenIDs = Append(@, tokenID),
              !.LastToken = tokenID,
              !.NumTokens = @ + 1]

(***************************************************************************)
(* block_manager.go. The operators work on a record st of the scheduler's  *)
(* mutable state: seqs, blocks, freeBlocks, hashToBlockID, waitingQueue,   *)
(* runningQueue.                                                           *)
(***************************************************************************)
NewBlockManager(numBlocks) ==
    [ blocks        |-> [i \in 0 .. (numBlocks - 1) |-> [RefCount |-> 0, Hash |-> 0, Tokens |-> <<>>]],
      freeBlocks    |-> AsSeq([i \in 1 .. numBlocks |-> i - 1]),
      hashToBlockID |-> EmptyMap ]

\* The SHA-1 digest of the token ids of computeHash, collision-free on the
\* chunks the model builds: an injective code of the chunk (digits token+1
\* in base VocabSize+1, plus one), never 0.
RECURSIVE Digest(_)
Digest(tokens) ==
    IF tokens = <<>> THEN 1
    ELSE 1 + (Head(tokens) + 1) + (VocabSize + 1) * (Digest(Tail(tokens)) - 1)

\* The four bytes computeHash keeps of the digest: all of it when hashSpace
\* is 0 (no two chunks of the model collide), else one of hashSpace values.
computeHash(tokens) ==
    IF hashSpace = 0 THEN Digest(tokens) ELSE Digest(tokens) % hashSpace

equalTokens(a, b) ==
    /\ Len(a) = Len(b)
    /\ \A i \in 1 .. Len(a) : a[i] = b[i]

CanAllocate(st0, id) ==
    LET Body(st) ==
            LET numBlocks == (st.seqs[id].NumTokens + blockSize - 1) \div blockSize
            IN  Len(st.freeBlocks) >= numBlocks
    IN  Eval(st0, Body)

RECURSIVE AllocateFrom(_, _, _, _)
AllocateFrom(st0, id, i, numBlocks) ==
    LET Body(st) ==
            IF i >= numBlocks THEN st
            ELSE
            LET seq == st.seqs[id]
                start == i * blockSize
                end == Min(start + blockSize, seq.NumTokens)
                tokens == SubSeq(seq.TokenIDs, start + 1, end)
                hash == computeHash(tokens)
                exists == hash \in DOMAIN st.hashToBlockID
                hit == exists /\ equalTokens(st.blocks[st.hashToBlockID[hash]].Tokens, tokens)
            IN  IF hit
                THEN LET blockID == st.hashToBlockID[hash]
                     IN  AllocateFrom(
                           [st EXCEPT !.seqs[id].BlockTable[i + 1] = blockID,
                                      !.blocks[blockID].RefCount = @ + 1,
                                      !.seqs[id].NumCachedTokens = @ + Len(tokens)],
                           id, i + 1, numBlocks)
                ELSE LET blockID == st.freeBlocks[Len(st.freeBlocks)]
                     IN  AllocateFrom(
                           [st EXCEPT !.freeBlocks = SubSeq(@, 1, Len(@) - 1),
                                      !.blocks[blockID] = [RefCount |-> 1, Hash |-> hash, Tokens |-> tokens],
                                      !.seqs[id].BlockTable[i + 1] = blockID,
                                      !.hashToBlockID = MapPut(@, hash, blockID)],
                           id, i + 1, numBlocks)
    IN  Eval(st0, Body)

Allocate(st0, id) ==
    LET Body(st) ==
            LET numBlocks == (st.seqs[id].NumTokens + blockSize - 1) \div blockSize
            IN  AllocateFrom([st EXCEPT !.seqs[id].BlockTable = AsSeq([j \in 1 .. numBlocks |-> 0])],
                             id, 0, numBlocks)
    IN  Eval(st0, Body)

\* A Free loop that leaves the hash entry of a released block in the map.
RECURSIVE FreeFromKeepHash(_, _, _)
FreeFromKeepHash(st0, table, k) ==
    LET Body(st) ==
            IF k > Len(table) THEN st
            ELSE
            LET blockID == table[k]
                refCount == st.blocks[blockID].RefCount - 1
            IN  IF refCount = 0
                THEN FreeFromKeepHash(
                       [st EXCEPT !.freeBlocks = Append(@, blockID),
                                  !.blocks[blockID] = [RefCount |-> 0, Hash |-> 0, Tokens |-> <<>>]],
                       table, k + 1)
                ELSE FreeFromKeepHash([st EXCEPT !.blocks[blockID].RefCount = refCount], table, k + 1)
    IN  Eval(st0, Body)

RECURSIVE FreeFrom(_, _, _)
FreeFrom(st0, table, k) ==
    LET Body(st) ==
            IF k > Len(table) THEN st
            ELSE
            LET blockID == table[k]
                refCount == st.blocks[blockID].RefCount - 1
            IN  IF refCount = 0
                THEN FreeFrom(
                       [st EXCEPT !.freeBlocks = Append(@, blockID),
                                  !.hashToBlockID = MapDelete(@, st.blocks[blockID].Hash),
                                  !.blocks[blockID] = [RefCount |-> 0, Hash |-> 0, Tokens |-> <<>>]],
                       table, k + 1)
                ELSE FreeFrom([st EXCEPT !.blocks[blockID].RefCount = refCount], table, k + 1)
    IN  Eval(st0, Body)

\* A Free that drops the block table without releasing the blocks.
FreeTableOnly(st0, id) ==
    [st0 EXCEPT !.seqs[id].BlockTable = <<>>,
                !.seqs[id].NumCachedTokens = 0]

Free(st0, id) ==
    LET Body(st) ==
            LET freed == FreeFrom(st, st.seqs[id].BlockTable, 1)
            IN  [freed EXCEPT !.seqs[id].BlockTable = <<>>,
                              !.seqs[id].NumCachedTokens = 0]
    IN  Eval(st0, Body)

CanAppend(st0, id) ==
    LET Body(st) ==
            LET table == st.seqs[id].BlockTable
            IN  IF Len(table) = 0 THEN Len(st.freeBlocks) > 0
                ELSE IF Len(st.blocks[table[Len(table)]].Tokens) < blockSize THEN TRUE
                ELSE Len(st.freeBlocks) > 0
    IN  Eval(st0, Body)

\* An Append that starts a new block whenever one is free, full last block
\* or not.
BmAppendNewBlock(st0, id) ==
    LET Body(st) ==
            LET seq == st.seqs[id]
                top == st.freeBlocks[Len(st.freeBlocks)]
                newHash == computeHash(<<seq.LastToken>>)
            IN  IF Len(st.freeBlocks) = 0 THEN st
                ELSE [st EXCEPT !.freeBlocks = SubSeq(@, 1, Len(@) - 1),
                                !.blocks[top] = [RefCount |-> 1, Hash |-> newHash, Tokens |-> <<seq.LastToken>>],
                                !.seqs[id].BlockTable = Append(@, top),
                                !.hashToBlockID = MapPut(@, newHash, top)]
    IN  Eval(st0, Body)

\* A plausible slip in Append: the entry of the old hash is not deleted
\* when a token is added to the last block.
BmAppendKeepOldHash(st0, id) ==
    LET Body(st) ==
            LET seq == st.seqs[id]
                table == seq.BlockTable
                top == st.freeBlocks[Len(st.freeBlocks)]
            IN  IF Len(table) = 0
                THEN [st EXCEPT !.freeBlocks = SubSeq(@, 1, Len(@) - 1),
                                !.blocks[top].RefCount = 1,
                                !.blocks[top].Tokens = <<seq.LastToken>>,
                                !.seqs[id].BlockTable = Append(@, top)]
                ELSE
                LET lastBlockID == table[Len(table)]
                    lastBlock == st.blocks[lastBlockID]
                IN  IF Len(lastBlock.Tokens) < blockSize
                    THEN LET newTokens == Append(lastBlock.Tokens, seq.LastToken)
                             newHash == computeHash(newTokens)
                         IN  [st EXCEPT !.blocks[lastBlockID].Tokens = newTokens,
                                        !.blocks[lastBlockID].Hash = newHash,
                                        !.hashToBlockID = MapPut(@, newHash, lastBlockID)]
                    ELSE LET newHash == computeHash(<<seq.LastToken>>)
                         IN  [st EXCEPT !.freeBlocks = SubSeq(@, 1, Len(@) - 1),
                                        !.blocks[top] = [RefCount |-> 1, Hash |-> newHash, Tokens |-> <<seq.LastToken>>],
                                        !.seqs[id].BlockTable = Append(@, top),
                                        !.hashToBlockID = MapPut(@, newHash, top)]
    IN  Eval(st0, Body)

BmAppend(st0, id) ==
    LET Body(st) ==
            LET seq == st.seqs[id]
                table == seq.BlockTable
                top == st.freeBlocks[Len(st.freeBlocks)]
            IN  IF Len(table) = 0
                THEN [st EXCEPT !.freeBlocks = SubSeq(@, 1, Len(@) - 1),
                                !.blocks[top].RefCount = 1,
                                !.blocks[top].Tokens = <<seq.LastToken>>,
                                !.seqs[id].BlockTable = Append(@, top)]
                ELSE
                LET lastBlockID == table[Len(table)]
                    lastBlock == st.blocks[lastBlockID]
                IN  IF Len(lastBlock.Tokens) < blockSize
                    THEN LET newTokens == Append(lastBlock.Tokens, seq.LastToken)
                             newHash == computeHash(newTokens)
                         IN  [st EXCEPT !.blocks[lastBlockID].Tokens = newTokens,
                                        !.blocks[lastBlockID].Hash = newHash,
                                        !.hashToBlockID = MapPut(MapDelete(@, lastBlock.Hash), newHash, lastBlockID)]
                    ELSE LET newHash == computeHash(<<seq.LastToken>>)
                         IN  [st EXCEPT !.freeBlocks = SubSeq(@, 1, Len(@) - 1),
                                        !.blocks[top] = [RefCount |-> 1, Hash |-> newHash, Tokens |-> <<seq.LastToken>>],
                                        !.seqs[id].BlockTable = Append(@, top),
                                        !.hashToBlockID = MapPut(@, newHash, top)]
    IN  Eval(st0, Body)

(***************************************************************************)
(* safetensors/reader.go                                                   *)
(***************************************************************************)
\* The width of the model's int64: offsets are two's complement numbers of
\* IntBits bits, so that the sums of ReadRaw can wrap.
IntBits == 5
MaxHeaderLen == 2
MaxPayloadLen == 3

\* The bytes of the little-endian header length in front of the header.
LengthPrefixBytes == 8

Int64s == (0 - 2 ^ (IntBits - 1)) .. (2 ^ (IntBits - 1) - 1)

\* Go's wrapping int64 arithmetic.
WrapInt(x) ==
    LET r == x % (2 ^ IntBits)
    IN  IF r >= 2 ^ (IntBits - 1) THEN r - 2 ^ IntBits ELSE r

TensorNames == {"w", "missing"}

\* The header Open parses: one tensor "w" with its data_offsets.
TensorInfo(start, end) == [w |-> [DataOffsets |-> <<start, end>>]]

\* Open: the whole file is loaded into Data; offset is the start of the payload.
Open(headerLen, payloadLen, header) ==
    [ Header  |-> header,
      DataLen |-> LengthPrefixBytes + headerLen + payloadLen,
      offset  |-> WrapInt(LengthPrefixBytes + headerLen) ]

\* ReadRaw: the slice f.Data[lo:hi] is modelled by its bounds lo and hi.
ReadRaw(f, name) ==
    IF name \notin DOMAIN f.Header
    THEN [err |-> TRUE, lo |-> 0, hi |-> 0]
    ELSE LET ti == f.Header[name]
             start == WrapInt(f.offset + ti.DataOffsets[1])
             end == WrapInt(f.offset + ti.DataOffsets[2])
         IN  IF start < 0 \/ end < start \/ end > f.DataLen
             THEN [err |-> TRUE, lo |-> 0, hi |-> 0]
             ELSE [err |-> FALSE, lo |-> start, hi |-> end]

(***************************************************************************)
(* scheduler.go                                                            *)
(***************************************************************************)
\* The field preempted is history: the sequences one Schedule call has
\* preempted so far, in order.
SchedState ==
    [ seqs |-> seqs, blocks |-> blocks, freeBlocks |-> freeBlocks,
      hashToBlockID |-> hashToBlockID,
      waitingQueue |-> waitingQueue, runningQueue |-> runningQueue,
      preempted |-> <<>> ]

RemoveAt(q, k) == SubSeq(q, 1, k - 1) \o SubSeq(q, k + 1, Len(q))

\* A plausible slip in the loop guards of Schedule: <= for <.
BatchHasRoomOffByOne(scheduled) == Len(scheduled) <= maxNumSeqs

\* The guard len(scheduled) < s.maxNumSeqs of both loops of Schedule.
BatchHasRoom(scheduled) == Len(scheduled) < maxNumSeqs

canSchedule(st0, id, currentBatchSize) ==
    LET Body(st) ==
            IF currentBatchSize >= maxNumSeqs THEN FALSE
            ELSE IF st.seqs[id].NumTokens - st.seqs[id].NumCachedTokens > maxNumBatchedTokens THEN FALSE
            ELSE CanAllocate(st, id)
    IN  Eval(st0, Body)

\* The prefill loop of Schedule: admit from the front of waiting.
RECURSIVE SchedulePrefill(_, _)
SchedulePrefill(st0, scheduled) ==
    LET Body(st) ==
            IF Len(st.waitingQueue) > 0 /\ BatchHasRoom(scheduled)
            THEN LET id == Head(st.waitingQueue)
                 IN  IF canSchedule(st, id, Len(scheduled))
                     THEN LET removed == [st EXCEPT !.waitingQueue = Tail(@)]
                              allocated == Allocate(removed, id)
                              running == [allocated EXCEPT !.seqs[id].Status = SequenceStatusRunning,
                                                           !.runningQueue = Append(@, id)]
                          IN  SchedulePrefill(running, Append(scheduled, id))
                     ELSE [st |-> st, scheduled |-> scheduled]
            ELSE [st |-> st, scheduled |-> scheduled]
    IN  Eval(st0, Body)

\* A plausible slip in the preemption branch: PushBack for PushFront.
PushBack(q, id) == Append(q, id)

\* list.PushFront, as the preemption branch of Schedule calls it.
PushFront(q, id) == <<id>> \o q

\* The decode loop of Schedule: elem is a position in running; a preemption
\* removes the element and sets elem back to the front of running.
RECURSIVE ScheduleDecode(_, _, _)
ScheduleDecode(st0, elem, scheduled) ==
    LET Body(st) ==
            IF elem <= Len(st.runningQueue) /\ BatchHasRoom(scheduled)
            THEN LET id == st.runningQueue[elem]
                 IN  IF CanAppend(st, id)
                     THEN ScheduleDecode(BmAppend(st, id), elem + 1, Append(scheduled, id))
                     ELSE LET removed == [st EXCEPT !.runningQueue = RemoveAt(@, elem)]
                              freed == Free(removed, id)
                              waiting == [freed EXCEPT !.seqs[id].Status = SequenceStatusWaiting,
                                                       !.waitingQueue = PushFront(@, id),
                                                       !.preempted = Append(@, id)]
                          IN  ScheduleDecode(waiting, 1, scheduled)
            ELSE [st |-> st, scheduled |-> scheduled]
    IN  Eval(st0, Body)

\* A plausible slip in Schedule: the decode loop runs after a prefill loop
\* that admitted sequences, and adds to the same batch.
ScheduleMixed(st) ==
    LET Body(prefill) ==
            LET decode == ScheduleDecode(prefill.st, 1, prefill.scheduled)
            IN  [st |-> decode.st, scheduled |-> decode.scheduled,
                 isPrefill |-> Len(prefill.scheduled) > 0]
    IN  Eval(SchedulePrefill(st, <<>>), Body)

Schedule(st) ==
    LET Decode(prefill) ==
            LET decode == ScheduleDecode(prefill.st, 1, <<>>)
            IN  [st |-> decode.st, scheduled |-> decode.scheduled, isPrefill |-> FALSE]
        Body(prefill) ==
            IF Len(prefill.scheduled) > 0
            THEN [st |-> prefill.st, scheduled |-> prefill.scheduled, isPrefill |-> TRUE]
            ELSE Decode(prefill)
    IN  Eval(SchedulePrefill(st, <<>>), Body)

\* The position of the first element of running holding id, 0 when absent.
FirstIndex(q, id) ==
    IF \E k \in 1 .. Len(q) : q[k] = id
    THEN CHOOSE k \in 1 .. Len(q) : q[k] = id /\ \A j \in 1 .. (k - 1) : q[j] # id
    ELSE 0

\* A plausible slip in the finish check: the eos comparison left out.
FinishCheckLengthOnly(seq, tokenID) == NumCompletionTokens(seq) >= seq.MaxTokens

\* The condition of PostProcess that makes a sequence Finished.
FinishCheck(seq, tokenID) ==
    \/ (~seq.IgnoreEOS /\ tokenID = eosTokenID)
    \/ NumCompletionTokens(seq) >= seq.MaxTokens

RECURSIVE PostProcessFrom(_, _, _, _, _)
PostProcessFrom(st0, batchSeqs, toks, i, finished) ==
    LET Body(st) ==
            IF i > Len(batchSeqs) THEN [st |-> st, finished |-> finished]
            ELSE
            LET id == batchSeqs[i]
                appended == [st EXCEPT !.seqs[id] = AppendToken(@, toks[i])]
            IN  IF FinishCheck(appended.seqs[id], toks[i])
                THEN LET marked == [appended EXCEPT !.seqs[id].Status = SequenceStatusFinished]
                         freed == Free(marked, id)
                         k == FirstIndex(freed.runningQueue, id)
                         removed == IF k = 0 THEN freed
                                    ELSE [freed EXCEPT !.runningQueue = RemoveAt(@, k)]
                     IN  PostProcessFrom(removed, batchSeqs, toks, i + 1, Append(finished, TRUE))
                ELSE PostProcessFrom(appended, batchSeqs, toks, i + 1, Append(finished, FALSE))
    IN  Eval(st0, Body)

PostProcess(st, batchSeqs, toks) == PostProcessFrom(st, batchSeqs, toks, 1, <<>>)

IsFinished == Len(waitingQueue) = 0 /\ Len(runningQueue) = 0

NewScheduler(cfg) ==
    [ maxNumSeqs          |-> cfg.MaxNumSeqs,
      maxNumBatchedTokens |-> cfg.MaxNumBatchedTokens,
      eosTokenID          |-> cfg.EOSTokenID,
      blockManager        |-> NewBlockManager(cfg.NumKVCacheBlocks),
      blockSize           |-> cfg.KVCacheBlockSize ]

(***************************************************************************)
(* sampler.go. Logits are whole numbers; a probability vector is a record  *)
(* [w, total] standing for probs[i] = w[i] / total; exp is read from a     *)
(* table in millionths; the draw of rand.Float32 is draw / DrawGrid.       *)
(***************************************************************************)
DrawGrid == 4
MaxPrevLen == 2

DefaultTopPPercent == 95
DefaultTopK == 50

\* The value topKFilter writes over a filtered logit (-1e30): a logit so far
\* below every other that its exp is 0.
Masked == -1000000

\* e^0, e^-1, ..., e^-12 in millionths.
ExpTable == <<1000000, 367879, 135335, 49787, 18316, 6738, 2479, 912, 335, 123, 45, 17, 6>>

\* math.Exp(d) for d <= 0.
Exp(d) == IF 0 - d < Len(ExpTable) THEN ExpTable[1 - d] ELSE 0

RECURSIVE SumSeq(_)
SumSeq(q) == IF q = <<>> THEN 0 ELSE Head(q) + SumSeq(Tail(q))

\* DefaultParams, taken when no parameters are given for a row.
DefaultParams ==
    [ TopP |-> DefaultTopPPercent, TopK |-> DefaultTopK,
      RepetitionPenalty |-> 1, PresencePenalty |-> 0, FrequencyPenalty |-> 0 ]

\* The number of occurrences of id in prev (applyPenalties' counts[id]).
Count(prev, id) == Cardinality({k \in 1 .. Len(prev) : prev[k] = id})

\* applyPenalties; the token with id j is logits[j + 1].
applyPenalties(logits, prev, cfg) ==
    IF Len(prev) = 0 THEN logits
    ELSE AsSeq([j \in 1 .. Len(logits) |->
            LET c == Count(prev, j - 1)
                rep == IF cfg.RepetitionPenalty # 0 /\ cfg.RepetitionPenalty # 1
                       THEN (IF logits[j] > 0 THEN logits[j] \div cfg.RepetitionPenalty
                             ELSE logits[j] * cfg.RepetitionPenalty)
                       ELSE logits[j]
                pres == IF cfg.PresencePenalty # 0 THEN rep - cfg.PresencePenalty ELSE rep
                freq == IF cfg.FrequencyPenalty # 0 THEN pres - cfg.FrequencyPenalty * c ELSE pres
            IN  IF c = 0 THEN logits[j] ELSE freq])

\* topKFilter: every logit below the k-th largest is masked.
topKFilter(logits, k) ==
    IF k <= 0 \/ k >= Len(logits) THEN logits
    ELSE LET n == Len(logits)
             thresh == CHOOSE v \in {logits[j] : j \in 1 .. n} :
                          /\ Cardinality({j \in 1 .. n : logits[j] > v}) < k
                          /\ Cardinality({j \in 1 .. n : logits[j] >= v}) >= k
         IN  AsSeq([j \in 1 .. n |-> IF logits[j] < thresh THEN Masked ELSE logits[j]])

softmax(logits) ==
    LET n == Len(logits)
        max == CHOOSE v \in {logits[j] : j \in 1 .. n} : \A j \in 1 .. n : logits[j] <= v
        expVals == AsSeq([j \in 1 .. n |-> Exp(logits[j] - max)])
    IN  [w |-> expVals, total |-> SumSeq(expVals)]

\* What sort.Slice may leave in idx: any order of the indices in which the
\* probabilities do not increase.
SortedDesc(probs) ==
    {idx \in [1 .. Len(probs.w) -> 1 .. Len(probs.w)] :
        /\ \A a, b \in 1 .. Len(probs.w) : a # b => idx[a] # idx[b]
        /\ \A a \in 1 .. (Len(probs.w) - 1) : probs.w[idx[a]] >= probs.w[idx[a + 1]]}

\* topPFilter with p = pPercent / 100 and idx the sorted indices.
topPFilter(probs, pPercent, idx) ==
    LET n == Len(probs.w)
        Cum(i) == SumSeq(AsSeq([a \in 1 .. i |-> probs.w[idx[a]]]))
        hits == {i \in 1 .. n : Cum(i) * 100 >= pPercent * probs.total}
        cutoff == IF hits = {} THEN n ELSE CHOOSE i \in hits : \A h \in hits : i <= h
        kept == {idx[a] : a \in 1 .. cutoff}
        w == AsSeq([j \in 1 .. n |-> IF j \in kept THEN probs.w[j] ELSE 0])
        sum == SumSeq(w)
    IN  [w |-> w, total |-> IF sum > 0 THEN sum ELSE probs.total]

\* sampleFromProbs with r = draw / DrawGrid; returns the token id.
sampleFromProbs(probs, draw) ==
    LET n == Len(probs.w)
        hits == {i \in 1 .. n : draw * probs.total < SumSeq(SubSeq(probs.w, 1, i)) * DrawGrid}
    IN  IF hits = {} THEN n - 1
        ELSE (CHOOSE i \in hits : \A h \in hits : i <= h) - 1

\* Sample, the body of its loop up to softmax, for one row: the temperature,
\* the penalties, the top-k filter, softmax. params is None or <<p>>.
RowParams(params) == IF params = None THEN DefaultParams ELSE params[1]

RowProbs(logits, temp, prev, params) ==
    LET scaled == IF temp > 0 THEN AsSeq([j \in 1 .. Len(logits) |-> logits[j] \div temp]) ELSE logits
        p == RowParams(params)
        penalised == applyPenalties(scaled, prev, p)
        filtered == IF p.TopK > 0 THEN topKFilter(penalised, p.TopK) ELSE penalised
    IN  softmax(filtered)

\* Sample for one row: idx is the order topPFilter's sort leaves, draw the
\* random number.
Sample(logits, temp, prev, params, idx, draw) ==
    LET p == RowParams(params)
        probs == RowProbs(logits, temp, prev, params)
        nucleus == IF p.TopP > 0 /\ p.TopP < 100 THEN topPFilter(probs, p.TopP, idx) ELSE probs
    IN  sampleFromProbs(nucleus, draw)

(***************************************************************************)
(* The inputs: the options given to LoadConfig, config.json, the requests. *)
(***************************************************************************)
OptMaxNumBatchedTokens == 2

Options(batched, numSeqs, numBlocks) ==
    [ MaxNumBatchedTokens |-> batched,
      MaxNumSeqs          |-> numSeqs,
      MaxModelLen         |-> <<OptMaxModelLen>>,
      KVCacheBlockSize    |-> <<OptBlockSize>>,
      NumKVCacheBlocks    |-> numBlocks ]

\* The engines the model starts: the options given to NewLLMEngine and the
\* eos_token_id of the checkpoint's config.json.
Deployments ==
    { [opts |-> Options(NoOpt, <<2>>, <<2>>),                       js |-> [eos_token_id |-> 1]],
      [opts |-> Options(NoOpt, <<1>>, <<1>>),                       js |-> [eos_token_id |-> 0]],
      [opts |-> Options(<<OptMaxNumBatchedTokens>>, <<1>>, NoOpt),  js |-> [eos_token_id |-> 0]],
      [opts |-> Options(<<OptMaxNumBatchedTokens>>, <<2>>, <<2>>),  js |-> [eos_token_id |-> 1]],
      [opts |-> [Options(NoOpt, <<2>>, <<3>>) EXCEPT !.KVCacheBlockSize = <<1>>],
                                                                     js |-> [eos_token_id |-> 0]] }

MaxRunFailures == 1

\* The values the colliding hash of CollisionSpec tells apart.
HashSpace == 4

Prompts == UNION {[1 .. n -> Vocab] : n \in 1 .. MaxPromptLen}

SamplingParams == [MaxTokens : 1 .. MaxMaxTokens, IgnoreEOS : BOOLEAN]

sequenceCounter == Cardinality(DOMAIN seqs)

\* The arguments of Sample: one row of logits from Forward, the sequence's
\* temperature, its completion tokens so far, its sampling parameters.
Logits == [1 .. VocabSize -> {-2, 0, 2}]

Temperatures == {0, 1}

PrevTokens == UNION {[1 .. n -> Vocab] : n \in 0 .. MaxPrevLen}

SamplerParams ==
    {None} \cup
    {<<p>> : p \in [ TopP : {0, 50}, TopK : {0, 1}, RepetitionPenalty : {1, 2},
                     PresencePenalty : {0, 1}, FrequencyPenalty : {0, 1} ]}

(***************************************************************************)
(* llm_engine.go                                                           *)
(***************************************************************************)
\* The state after NewLLMEngine, with a hash that tells space values apart.
InitWith(space) ==
    \E d \in Deployments :
        LET js == d.js
            cfg == LoadConfig(d.opts, js)
            sched == NewScheduler(cfg)
        IN  /\ modelConfig = js
            /\ config = cfg
            /\ maxNumSeqs = sched.maxNumSeqs
            /\ maxNumBatchedTokens = sched.maxNumBatchedTokens
            /\ eosTokenID = sched.eosTokenID
            /\ blockSize = sched.blockSize
            /\ blocks = sched.blockManager.blocks
            /\ freeBlocks = sched.blockManager.freeBlocks
            /\ hashToBlockID = sched.blockManager.hashToBlockID
            /\ seqs = EmptyMap
            /\ waitingQueue = <<>>
            /\ runningQueue = <<>>
            /\ pc = "idle"
            /\ batch = <<>>
            /\ isPrefill = FALSE
            /\ tokenIDs = <<>>
            /\ stepOutputs = <<>>
            /\ stepErr = None
            /\ errOthers = {}
            /\ numRunFailures = 0
            /\ genPc = "none"
            /\ genIDs = <<>>
            /\ genN = 0
            /\ genOutputs = EmptyMap
            /\ genResult = <<>>
            /\ preemptedBefore = EmptyMap
            /\ sampleCall = None
            /\ readCall = None
            /\ cacheLen = 0
            /\ hashSpace = space

Init == InitWith(0)

\* The body of AddRequest after a successful Encode: NewSequence, Scheduler.Add.
AddRequestBody(tokens, params) ==
    LET id == sequenceCounter
    IN  /\ seqs' = [i \in 0 .. id |-> IF i = id THEN NewSequence(tokens, params) ELSE seqs[i]]
        /\ waitingQueue' = Append(waitingQueue, id)
        /\ preemptedBefore' = [x \in DOMAIN preemptedBefore |-> preemptedBefore[x] \cup {id}]
        /\ UNCHANGED <<cfgVars, bmVars, runningQueue, stepVars, samplerVars, readerVars, runnerVars>>

AddRequest ==
    /\ genPc = "none"
    /\ pc = "idle"
    /\ sequenceCounter < MaxRequests
    /\ \E tokens \in Prompts, params \in SamplingParams : AddRequestBody(tokens, params)
    /\ UNCHANGED genVars

\* The history of preemptions after a Schedule that left the scheduler in
\* st: a sequence this Schedule preempted is recorded with the IDs that were
\* in waiting when it was preempted (those in waiting before the call and
\* those the call preempted earlier); a recorded sequence Schedule moved
\* back to running is dropped.
PreemptedBeforeAfter(st) ==
    LET log == st.preempted
        preemptedNow == {log[k] : k \in 1 .. Len(log)}
        still == {x \in DOMAIN preemptedBefore : st.seqs[x].Status = SequenceStatusWaiting}
        LastPos(x) == CHOOSE k \in 1 .. Len(log) : log[k] = x /\ \A j \in (k + 1) .. Len(log) : log[j] # x
        WaitingThen(x) == ({waitingQueue[k] : k \in 1 .. Len(waitingQueue)}
                              \cup {log[j] : j \in 1 .. (LastPos(x) - 1)}) \ {x}
    IN  [x \in still \cup preemptedNow |->
            IF x \in preemptedNow THEN WaitingThen(x) ELSE preemptedBefore[x]]

\* Step up to the return of Scheduler.Schedule; an empty batch makes Step
\* return (nil, nil).
StepSchedule ==
    /\ pc = "idle"
    /\ \/ genPc = "none"
       \/ genPc = "loop" /\ ~IsFinished
    /\ \E r \in {Schedule(SchedState)} :
           /\ seqs' = r.st.seqs
           /\ blocks' = r.st.blocks
           /\ freeBlocks' = r.st.freeBlocks
           /\ hashToBlockID' = r.st.hashToBlockID
           /\ waitingQueue' = r.st.waitingQueue
           /\ runningQueue' = r.st.runningQueue
           /\ batch' = r.scheduled
           /\ isPrefill' = r.isPrefill
           /\ pc' = IF Len(r.scheduled) = 0 THEN "idle" ELSE "scheduled"
           /\ preemptedBefore' = PreemptedBeforeAfter(r.st)
    /\ tokenIDs' = <<>>
    /\ stepOutputs' = <<>>
    /\ stepErr' = None
    /\ UNCHANGED <<cfgVars, errOthers, numRunFailures, genVars, samplerVars, readerVars, runnerVars>>

(***************************************************************************)
(* model_runner.go and the attention cache                                 *)
(***************************************************************************)
\* The tokens of the blocks of a block table, concatenated in order.
RECURSIVE BlockTokens(_)
BlockTokens(table) ==
    IF table = <<>> THEN <<>>
    ELSE blocks[Head(table)].Tokens \o BlockTokens(Tail(table))

\* prepareInput: the number of input tokens of one sequence.
InputLen(seq, prefill) == IF prefill THEN seq.NumTokens - seq.NumCachedTokens ELSE 1

\* Qwen3Model.ResetKVCache: every layer's cache back to length 0.
ResetKVCache(len) == 0

\* Attention.Forward on T input rows: cacheLen++ for each row.
CacheForward(len, T) == len + T

\* The slots of the block manager that sequence seq has filled.
FilledSlots(seq) == Len(BlockTokens(seq.BlockTable))

\* The loop of ModelRunner.Run over the batch b, starting with cache length
\* len: one record for each call of Forward, with the cache length before
\* and after the call, the tokens of the sequence the model had processed
\* before, and the slots the sequence has filled.
RECURSIVE RunForwards(_, _, _)
RunForwards(b, prefill, len) ==
    IF b = <<>> THEN <<>>
    ELSE LET seq == seqs[Head(b)]
             before == IF prefill /\ seq.NumCachedTokens = 0 THEN ResetKVCache(len) ELSE len
             after == CacheForward(before, InputLen(seq, prefill))
         IN  << [ seq       |-> Head(b),
                  before    |-> before,
                  processed |-> IF prefill THEN seq.NumCachedTokens ELSE seq.NumTokens - 1,
                  after     |-> after,
                  filled    |-> FilledSlots(seq) ] >> \o RunForwards(Tail(b), prefill, after)

\* The cache length a run leaves; a run of no call leaves it alone.
CacheAfter(calls) == IF calls = <<>> THEN cacheLen ELSE calls[Len(calls)].after

\* Where Run can fail for a sequence: in prepareInput, in Forward, or in
\* Sample after Forward returned.
RunStages == {"prepareInput", "Forward", "Sample"}

\* The cache length after Run failed at the last sequence of b: the calls
\* for the sequences before it went through; a failing Forward is taken
\* to stop before it appends to the cache.
FailedRunCache(b, prefill, len, stage) ==
    LET calls == RunForwards(b, prefill, len)
        last == calls[Len(calls)]
        start == IF Len(calls) = 1 THEN len ELSE calls[Len(calls) - 1].after
    IN  IF stage = "prepareInput" THEN start
        ELSE IF stage = "Forward" THEN last.before
        ELSE last.after

\* Generate's loop body after a Step that returned outputs: keep the finished ones.
RECURSIVE CollectFinished(_, _, _)
CollectFinished(outputs, stepOut, i) ==
    IF i > Len(stepOut) THEN outputs
    ELSE IF stepOut[i].Finished
         THEN CollectFinished(MapPut(outputs, stepOut[i].SeqID, stepOut[i].TokenIDs), stepOut, i + 1)
         ELSE CollectFinished(outputs, stepOut, i + 1)

\* Step from ModelRunner.Run on, when Run returns tokens: PostProcess and
\* the outputs. The sampled tokens are the run's input to the model.
\* Run returns tokens only when every sequence has an input row: it takes
\* row T - 1 of the logits of the T input tokens, so with T = 0 it ends in
\* an error or a panic.
StepRunOk ==
    /\ pc = "scheduled"
    /\ \A k \in 1 .. Len(batch) : InputLen(seqs[batch[k]], isPrefill) >= 1
    /\ \E toks \in [1 .. Len(batch) -> Vocab] :
        \E r \in {PostProcess(SchedState, batch, toks)} :
        LET outputs == AsSeq([i \in 1 .. Len(batch) |->
                          [ SeqID    |-> batch[i],
                            TokenIDs |-> CompletionTokenIDs(r.st.seqs[batch[i]]),
                            Finished |-> r.finished[i] ]])
        IN  /\ seqs' = r.st.seqs
            /\ blocks' = r.st.blocks
            /\ freeBlocks' = r.st.freeBlocks
            /\ hashToBlockID' = r.st.hashToBlockID
            /\ waitingQueue' = r.st.waitingQueue
            /\ runningQueue' = r.st.runningQueue
            /\ tokenIDs' = AsSeq(toks)
            /\ stepOutputs' = outputs
            /\ genOutputs' = IF genPc = "loop" THEN CollectFinished(genOutputs, outputs, 1)
                             ELSE genOutputs
    /\ stepErr' = None
    /\ pc' = "idle"
    /\ cacheLen' = CacheAfter(RunForwards(batch, isPrefill, cacheLen))
    /\ UNCHANGED <<cfgVars, batch, isPrefill, errOthers, numRunFailures, genPc, genIDs, genN, genResult,
                   histVars, samplerVars, readerVars>>

\* Step when ModelRunner.Run fails at the i-th sequence of the batch
\* (prepareInput, Forward or Sample returns an error): Run returns
\* "... (seq i)" with i the position in the batch, Step returns the error
\* without PostProcess; Generate returns it too.
StepRunFail ==
    /\ pc = "scheduled"
    /\ numRunFailures < MaxRunFailures
    /\ numRunFailures' = numRunFailures + 1
    /\ \E i \in 1 .. Len(batch) :
        /\ stepErr' = <<i - 1>>
        /\ errOthers' = errOthers \cup {batch[j] : j \in {k \in 1 .. Len(batch) : batch[k] # batch[i]}}
        /\ \E stage \in RunStages :
               cacheLen' = FailedRunCache(SubSeq(batch, 1, i), isPrefill, cacheLen, stage)
    /\ stepOutputs' = <<>>
    /\ pc' = "idle"
    /\ genPc' = IF genPc = "loop" THEN "failed" ELSE genPc
    /\ UNCHANGED <<cfgVars, bmVars, schedVars, batch, isPrefill, tokenIDs, genIDs, genN, genOutputs, genResult,
                   histVars, samplerVars, readerVars>>

\* Generate(prompts, params) is called with len(prompts) = k.
GenerateCall ==
    /\ genPc = "none"
    /\ pc = "idle"
    /\ sequenceCounter = 0
    /\ \E k \in 1 .. (MaxRequests - sequenceCounter) : genN' = k
    /\ genPc' = "add"
    /\ UNCHANGED <<cfgVars, bmVars, schedVars, stepVars, genIDs, genOutputs, genResult, histVars, samplerVars, readerVars, runnerVars>>

\* One round of Generate's first loop: AddRequest(prompts[i], params[i]).
GenerateAdd ==
    /\ genPc = "add"
    /\ \E tokens \in Prompts, params \in SamplingParams : AddRequestBody(tokens, params)
    /\ genIDs' = Append(genIDs, sequenceCounter)
    /\ genPc' = IF Len(genIDs) + 1 = genN THEN "loop" ELSE "add"
    /\ UNCHANGED <<genN, genOutputs, genResult>>

\* Generate after its step loop: result[i] is the first element that a range
\* over the outputs map yields, and Go starts a map range anywhere.
GenerateCollect ==
    /\ genPc = "loop"
    /\ pc = "idle"
    /\ IsFinished
    /\ IF DOMAIN genOutputs = {}
       THEN genResult' = AsSeq([i \in 1 .. genN |-> None])
       ELSE \E first \in [1 .. genN -> DOMAIN genOutputs] :
               genResult' = AsSeq([i \in 1 .. genN |-> <<genOutputs[first[i]]>>])
    /\ genPc' = "done"
    /\ UNCHANGED <<cfgVars, bmVars, schedVars, stepVars, genIDs, genN, genOutputs, histVars, samplerVars, readerVars, runnerVars>>

\* A call of Sampler.Sample on one row, as ModelRunner.Run makes it. Sample
\* keeps no state between calls, so one call per behaviour shows them all.
SamplerSample ==
    /\ sampleCall = None
    /\ \E logits \in Logits, temp \in Temperatures, prev \in PrevTokens,
          params \in SamplerParams, draw \in 0 .. (DrawGrid - 1) :
          \E idx \in SortedDesc(RowProbs(logits, temp, prev, params)) :
              sampleCall' = << [ logits      |-> AsSeq(logits),
                                 temperature |-> temp,
                                 prevTokens  |-> AsSeq(prev),
                                 params      |-> params,
                                 draw        |-> draw,
                                 token       |-> Sample(logits, temp, prev, params, idx, draw) ] >>
    /\ UNCHANGED <<cfgVars, bmVars, schedVars, stepVars, genVars, histVars, readerVars, runnerVars>>

\* The sampler on its own.
SamplerSpec == Init /\ [][SamplerSample]_vars

\* One call of File.ReadRaw on a file that Open accepted: a header of
\* headerLen bytes that names one tensor, then payloadLen bytes. Open keeps
\* no state between files and ReadRaw changes none.
ReaderRead ==
    /\ readCall = None
    /\ \E headerLen \in 0 .. MaxHeaderLen, payloadLen \in 0 .. MaxPayloadLen,
          start \in Int64s, end \in Int64s, name \in TensorNames :
          LET f == Open(headerLen, payloadLen, TensorInfo(start, end))
          IN  readCall' = << [ headerLen  |-> headerLen,
                               payloadLen |-> payloadLen,
                               dataLen    |-> f.DataLen,
                               name       |-> name,
                               start      |-> start,
                               end        |-> end,
                               result     |-> ReadRaw(f, name) ] >>
    /\ UNCHANGED <<cfgVars, bmVars, schedVars, stepVars, genVars, histVars, samplerVars, runnerVars>>

\* The safetensors reader on its own.
ReaderSpec == Init /\ [][ReaderRead]_vars

\* The engine when no model run fails.
Next ==
    \/ AddRequest
    \/ StepSchedule
    \/ StepRunOk
    \/ GenerateCall
    \/ GenerateAdd
    \/ GenerateCollect

Spec == Init /\ [][Next]_vars

\* The engine when model runs may fail.
NextWithFailure ==
    \/ AddRequest
    \/ StepSchedule
    \/ StepRunOk
    \/ StepRunFail
    \/ GenerateCall
    \/ GenerateAdd
    \/ GenerateCollect

FailSpec == Init /\ [][NextWithFailure]_vars

\* The engine driven by a caller that keeps calling Step (the loop of
\* Generate, or a caller's own loop) and whose Generate call goes on adding
\* its prompts; no model run fails.
\* The engine, model runs failing or not, when chunks can have colliding
\* hashes.
CollisionSpec == InitWith(HashSpace) /\ [][NextWithFailure]_vars

FairSpec ==
    /\ Init
    /\ [][Next]_vars
    /\ WF_vars(StepSchedule)
    /\ WF_vars(StepRunOk)
    /\ WF_vars(GenerateAdd)

(***************************************************************************)
(* Properties.                                                             *)
(***************************************************************************)
\* Step has returned outputs: the state right after StepRunOk, and the
\* states after it until the next Step starts.
StepReturned == pc = "idle" /\ stepOutputs # <<>>

InQueue(q, id) == \E k \in 1 .. Len(q) : q[k] = id

\* C1 (stop law): when Step returns, every sequence of its batch that does
\* not ignore eos and for which the token sampled in this step is the
\* scheduler's eos id is Finished, reported finished, out of the running
\* queue, and holds no block.
C1_StopLaw ==
    StepReturned =>
        \A i \in 1 .. Len(batch) :
            (~seqs[batch[i]].IgnoreEOS /\ tokenIDs[i] = eosTokenID) =>
                /\ seqs[batch[i]].Status = SequenceStatusFinished
                /\ stepOutputs[i].Finished
                /\ ~InQueue(runningQueue, batch[i])
                /\ seqs[batch[i]].BlockTable = <<>>

\* C1 witness: a Step returned after sampling eos for a sequence that had
\* not reached its length cap.
C1_Witness ==
    /\ StepReturned
    /\ \E i \in 1 .. Len(batch) :
          /\ ~seqs[batch[i]].IgnoreEOS
          /\ tokenIDs[i] = eosTokenID
          /\ NumCompletionTokens(seqs[batch[i]]) < seqs[batch[i]].MaxTokens
          /\ seqs[batch[i]].Status = SequenceStatusFinished

\* C2 (length cap), as claimed: no sequence with max_tokens > 0 ever holds
\* more completion tokens than max_tokens.
C2_LengthCap ==
    \A id \in DOMAIN seqs :
        seqs[id].MaxTokens > 0 => NumCompletionTokens(seqs[id]) <= seqs[id].MaxTokens

\* C8, as claimed: the eos id of the scheduler's finish check is the
\* eos_token_id of config.json.
C8_EosFromConfigJson == eosTokenID = modelConfig.eos_token_id

\* C9, as claimed: the running queue never holds more than max_num_seqs
\* sequences.
C9_RunningCapped == Len(runningQueue) <= maxNumSeqs

\* C9, amended: every batch Schedule returns holds at most max_num_seqs
\* sequences.
C9_BatchCapped == Len(batch) <= maxNumSeqs

\* C9 witness: Schedule has returned a full batch while more than
\* max_num_seqs sequences are running.
C9_Witness ==
    /\ pc = "scheduled"
    /\ Len(batch) = maxNumSeqs
    /\ Len(runningQueue) > maxNumSeqs

\* C10, as claimed: no sequence ever holds more than max_model_len tokens.
C10_ModelLenCap == \A id \in DOMAIN seqs : seqs[id].NumTokens <= config.MaxModelLen

\* A request fits the pool on its own: prompt length + max_tokens <= N*B.
FitsPool(s) == s.NumPromptTokens + s.MaxTokens <= config.NumKVCacheBlocks * blockSize

AllFit == \A id \in DOMAIN seqs : FitsPool(seqs[id])

\* C3 (termination), as claimed: while every admitted request fits the pool
\* on its own, an engine that is not finished becomes finished.
C3_Termination == (~IsFinished /\ AllFit) ~> (IsFinished \/ ~AllFit)

\* A prompt that alone exceeds max_model_len or the KV pool.
Oversize(s) ==
    \/ s.NumPromptTokens > config.MaxModelLen
    \/ (s.NumPromptTokens + blockSize - 1) \div blockSize > config.NumKVCacheBlocks

\* Step would return an empty batch and leave the scheduler as it is.
StepIsNoOp ==
    LET r == Schedule(SchedState)
    IN  Len(r.scheduled) = 0 /\ r.st = SchedState

\* C4 (resource error), as claimed: an oversize request was rejected, so it
\* is never at the front of the waiting queue of an unfinished engine whose
\* Step returns empty batches and changes nothing.
C4_ResourceError ==
    ~ ( /\ pc = "idle"
        /\ waitingQueue # <<>>
        /\ Oversize(seqs[Head(waitingQueue)])
        /\ ~IsFinished
        /\ StepIsNoOp )

\* C5 (output alignment), as claimed: when Generate returns its result,
\* result[i] holds the completion tokens of the sequence made for prompts[i].
C5_OutputAlignment ==
    genPc = "done" =>
        \A i \in 1 .. genN :
            genResult[i] = <<SubSeq(seqs[genIDs[i]].TokenIDs,
                                    seqs[genIDs[i]].NumPromptTokens + 1,
                                    Len(seqs[genIDs[i]].TokenIDs))>>

\* The tokens sampled in the last run for the entries of the batch that are
\* the sequence id, in batch order.
RECURSIVE SampledFor(_, _, _)
SampledFor(id, batchSeqs, toks) ==
    IF batchSeqs = <<>> THEN <<>>
    ELSE (IF Head(batchSeqs) = id THEN <<Head(toks)>> ELSE <<>>)
         \o SampledFor(id, Tail(batchSeqs), Tail(toks))

\* C6 (incremental output), as claimed: the output of a sequence holds the
\* token sampled for it in this step and nothing else.
C6_IncrementalOutput ==
    StepReturned =>
        \A i \in 1 .. Len(batch) : stepOutputs[i].TokenIDs = <<tokenIDs[i]>>

\* C6, amended: the output of a sequence holds all its completion tokens so
\* far: those it had before the step, then the tokens sampled for it in this
\* step.
C6_CumulativeOutput ==
    [][ (pc = "scheduled" /\ pc' = "idle" /\ stepErr' = None) =>
           \A i \in 1 .. Len(batch) :
               stepOutputs'[i].TokenIDs =
                   SubSeq(seqs[batch[i]].TokenIDs,
                          seqs[batch[i]].NumPromptTokens + 1,
                          Len(seqs[batch[i]].TokenIDs))
                   \o SampledFor(batch[i], batch, tokenIDs') ]_vars

\* C6 witness: a Step returned, for a sequence, an output that holds a token
\* of an earlier step before the token of this step.
C6_Witness ==
    /\ StepReturned
    /\ \E i \in 1 .. Len(batch) :
          /\ Len(stepOutputs[i].TokenIDs) = 2
          /\ \A j \in 1 .. Len(batch) : j # i => batch[j] # batch[i]

\* C7 (error containment), as claimed: the error of a failed Step names the
\* ID of the sequence whose run failed, and every other sequence of that
\* batch is scheduled by later Steps with its blocks holding its tokens.
C7_ErrorContainment ==
    /\ (pc = "idle" /\ stepErr # None) => stepErr[1] = batch[stepErr[1] + 1]
    /\ pc = "scheduled" =>
          \A j \in 1 .. Len(batch) :
              batch[j] \in errOthers =>
                  BlockTokens(seqs[batch[j]].BlockTable) = seqs[batch[j]].TokenIDs

\* C11 (greedy decoding), as claimed: a call of Sample with temperature 0
\* returns a token whose input logit is the largest.
C11_GreedyArgMax ==
    (sampleCall # None /\ sampleCall[1].temperature = 0) =>
        \A j \in 1 .. Len(sampleCall[1].logits) :
            sampleCall[1].logits[sampleCall[1].token + 1] >= sampleCall[1].logits[j]

\* The blocks a block table lists.
TableBlocks(table) == {table[k] : k \in 1 .. Len(table)}

Entries(table, b) == Cardinality({k \in 1 .. Len(table) : table[k] = b})

RECURSIVE SumEntries(_, _)
SumEntries(ids, b) ==
    IF ids = {} THEN 0
    ELSE LET id == CHOOSE x \in ids : TRUE
         IN  Entries(seqs[id].BlockTable, b) + SumEntries(ids \ {id}, b)

C13_BlocksMatchTokens ==
    pc = "scheduled" =>
        \A i \in 1 .. Len(batch) :
            BlockTokens(seqs[batch[i]].BlockTable) = seqs[batch[i]].TokenIDs

\* C14 (final-block ownership), as claimed: the last block of every
\* non-empty block table is full or has RefCount 1.
C14_FinalBlockOwned ==
    \A id \in DOMAIN seqs :
        LET table == seqs[id].BlockTable
        IN  table # <<>> =>
                \/ Len(blocks[table[Len(table)]].Tokens) = blockSize
                \/ blocks[table[Len(table)]].RefCount = 1

\* C15 (full blocks), as claimed: every block-table entry but the last
\* refers to a block that holds blockSize tokens.
C15_InnerBlocksFull ==
    \A id \in DOMAIN seqs :
        \A k \in 1 .. (Len(seqs[id].BlockTable) - 1) :
            Len(blocks[seqs[id].BlockTable[k]].Tokens) = blockSize

\* Every admitted sequence is finished and the engine is between Steps.
AllFreed ==
    /\ pc = "idle"
    /\ DOMAIN seqs # {}
    /\ \A id \in DOMAIN seqs : seqs[id].Status = SequenceStatusFinished

\* C16 (no leak), as claimed: once every admitted sequence is finished, the
\* free list holds each of the N blocks exactly once, every RefCount is 0
\* and the hash map is empty.
C16_NoLeak ==
    AllFreed =>
        /\ Len(freeBlocks) = config.NumKVCacheBlocks
        /\ TableBlocks(freeBlocks) = DOMAIN blocks
        /\ \A b \in DOMAIN blocks : blocks[b].RefCount = 0
        /\ DOMAIN hashToBlockID = {}

\* C18 (sequence counters), as claimed: for every sequence
\* len(TokenIDs) = NumTokens = NumPromptTokens + NumCompletionTokens and
\* 0 <= NumCachedTokens <= NumTokens.
C18_SequenceCounters ==
    \A id \in DOMAIN seqs :
        /\ Len(seqs[id].TokenIDs) = seqs[id].NumTokens
        /\ seqs[id].NumTokens = seqs[id].NumPromptTokens + NumCompletionTokens(seqs[id])
        /\ NumCompletionTokens(seqs[id]) >= 0
        /\ 0 <= seqs[id].NumCachedTokens
        /\ seqs[id].NumCachedTokens <= seqs[id].NumTokens

\* C15 witness: a sequence with two blocks, the second one partly filled.
C15_Witness ==
    \E id \in DOMAIN seqs :
        /\ Len(seqs[id].BlockTable) = 2
        /\ Len(blocks[seqs[id].BlockTable[2]].Tokens) < blockSize
        /\ seqs[id].BlockTable[1] # seqs[id].BlockTable[2]

\* C16 witness: two sequences whose prompts start with the same token were
\* admitted and both are finished.
C16_Witness ==
    /\ AllFreed
    /\ Cardinality(DOMAIN seqs) = 2
    /\ \A id \in DOMAIN seqs : seqs[id].TokenIDs[1] = seqs[0].TokenIDs[1]
    /\ Len(freeBlocks) = config.NumKVCacheBlocks

\* C18 witness: a sequence with a completion token is in a prefill batch (it
\* was preempted and is admitted again) with part of it found in the cache.
C18_Witness ==
    /\ pc = "scheduled"
    /\ isPrefill
    /\ \E i \in 1 .. Len(batch) :
          /\ NumCompletionTokens(seqs[batch[i]]) > 0
          /\ seqs[batch[i]].NumCachedTokens > 0

\* The j-th chunk of blockSize token ids of a sequence.
Chunk(seq, j) == SubSeq(seq.TokenIDs, (j - 1) * blockSize + 1, j * blockSize)

\* o is a live sequence that holds full blocks for the first k chunks of seq.
HoldsPrefix(o, seq, k) ==
    /\ seqs[o].Status = SequenceStatusRunning
    /\ Len(seqs[o].BlockTable) >= k
    /\ k * blockSize <= seq.NumTokens
    /\ \A j \in 1 .. k : blocks[seqs[o].BlockTable[j]].Tokens = Chunk(seq, j)

\* The largest k for which some other live sequence holds the first k chunks.
SharedChunks(id) ==
    LET ks == {k \in 0 .. Len(seqs[id].TokenIDs) :
                  \E o \in DOMAIN seqs \ {id} : HoldsPrefix(o, seqs[id], k)}
    IN  IF ks = {} THEN 0 ELSE CHOOSE k \in ks : \A h \in ks : h <= k

\* This step is a Schedule that admitted the one sequence id from waiting.
AdmitsOnly(id) ==
    /\ pc = "idle" /\ pc' = "scheduled" /\ isPrefill'
    /\ batch' = <<id>>

\* C17 (prefix reuse), as claimed: when Schedule allocates a sequence while
\* another live sequence holds full blocks for its first k chunks, the
\* sequence is bound to those blocks, their RefCount grows, no free block is
\* taken for these chunks and NumCachedTokens is k * blockSize.
C17_PrefixReuse ==
    [][ \A id \in DOMAIN seqs :
          (AdmitsOnly(id) /\ SharedChunks(id) > 0) =>
              LET k == SharedChunks(id)
                  numBlocks == (seqs[id].NumTokens + blockSize - 1) \div blockSize
              IN  /\ \E o \in DOMAIN seqs \ {id} :
                        /\ HoldsPrefix(o, seqs[id], k)
                        /\ \A j \in 1 .. k :
                              /\ seqs'[id].BlockTable[j] = seqs[o].BlockTable[j]
                              /\ blocks'[seqs[o].BlockTable[j]].RefCount
                                     > blocks[seqs[o].BlockTable[j]].RefCount
                  /\ Len(freeBlocks) - Len(freeBlocks') <= numBlocks - k
                  /\ seqs'[id].NumCachedTokens = k * blockSize ]_vars

\* C19 (preempted sequences resume first): a sequence that was in waiting
\* when x was preempted, or was added after that, is moved from waiting to
\* running only by a Schedule that leaves x running as well.
C19_ResumeFirst ==
    [][\A x \in DOMAIN preemptedBefore :
           \A w \in preemptedBefore[x] :
               (seqs[w].Status = SequenceStatusWaiting /\ seqs'[w].Status = SequenceStatusRunning)
                   => seqs'[x].Status = SequenceStatusRunning]_vars

\* C19 witness: a prefill batch re-admits a sequence that already has a
\* completion token, so was preempted, while another sequence is still
\* waiting behind it.
C19_Witness ==
    /\ pc = "scheduled"
    /\ isPrefill
    /\ \E k \in 1 .. Len(batch) :
           /\ NumCompletionTokens(seqs[batch[k]]) > 0
           /\ seqs[batch[k]].Status = SequenceStatusRunning
           /\ \E w \in DOMAIN seqs :
                  /\ w # batch[k]
                  /\ seqs[w].Status = SequenceStatusWaiting
                  /\ InQueue(waitingQueue, w)

\* The scenario of C20 before the decode Schedule: a pool of two blocks, the
\* older sequence a and the newer sequence b running after one prefill of
\* two distinct prompts of one full block each, and a unable to append.
VictimScenario(a, b) ==
    /\ pc = "idle"
    /\ config.NumKVCacheBlocks = 2
    /\ a < b
    /\ runningQueue = <<a, b>>
    /\ waitingQueue = <<>>
    /\ \A id \in {a, b} :
           /\ seqs[id].NumPromptTokens = blockSize
           /\ seqs[id].NumTokens = blockSize + 1
           /\ Len(seqs[id].BlockTable) = 1
    /\ SubSeq(seqs[a].TokenIDs, 1, blockSize) # SubSeq(seqs[b].TokenIDs, 1, blockSize)
    /\ seqs[a].BlockTable # seqs[b].BlockTable
    /\ ~CanAppend(SchedState, a)

\* C20 (preemption victim): the decode Schedule of that scenario preempts
\* the newer sequence (Waiting, blocks freed, front of waiting) and leaves
\* the older one running and in the batch.
C20_PreemptionVictim ==
    [][\A a, b \in DOMAIN seqs :
           (VictimScenario(a, b) /\ pc' = "scheduled") =>
               /\ seqs'[b].Status = SequenceStatusWaiting
               /\ seqs'[b].BlockTable = <<>>
               /\ waitingQueue' # <<>> /\ Head(waitingQueue') = b
               /\ seqs'[a].Status = SequenceStatusRunning
               /\ InQueue(runningQueue', a)
               /\ InQueue(batch', a)]_vars

\* C21 (safetensors offsets are validated): ReadRaw returns an error when
\* the tensor's data_offsets violate 0 <= start <= end <= payload length,
\* and the bytes it returns lie in the payload, after the length prefix and
\* the header.
C21_OffsetsValidated ==
    (readCall # None /\ readCall[1].name = "w") =>
        LET c == readCall[1]
        IN  /\ ~(0 <= c.start /\ c.start <= c.end /\ c.end <= c.payloadLen) => c.result.err
            /\ ~c.result.err =>
                   /\ c.result.lo = LengthPrefixBytes + c.headerLen + c.start
                   /\ c.result.hi = LengthPrefixBytes + c.headerLen + c.end
                   /\ c.result.lo >= LengthPrefixBytes + c.headerLen
                   /\ c.result.hi <= c.dataLen

\* The prefill work of a batch: the sum of NumTokens - NumCachedTokens.
RECURSIVE PrefillWork(_)
PrefillWork(b) ==
    IF b = <<>> THEN 0
    ELSE seqs[Head(b)].NumTokens - seqs[Head(b)].NumCachedTokens + PrefillWork(Tail(b))

\* C22 (prefill token budget): the prefill work of a prefill batch that
\* Schedule returned does not exceed max_num_batched_tokens.
C22_PrefillBudget ==
    (pc = "scheduled" /\ isPrefill) => PrefillWork(batch) <= maxNumBatchedTokens

\* The number of free blocks Allocate would take for sequence id: its
\* chunks from chunk i on that hit no block, neither one that exists now nor
\* one that an earlier chunk of the same walk has filled (known).
RECURSIVE FreeBlocksTaken(_, _, _)
FreeBlocksTaken(id, i, known) ==
    LET seq == seqs[id]
        numBlocks == (seq.NumTokens + blockSize - 1) \div blockSize
        tokens == SubSeq(seq.TokenIDs, i * blockSize + 1, Min(i * blockSize + blockSize, seq.NumTokens))
        hash == computeHash(tokens)
        hit == \/ hash \in known
               \/ /\ hash \in DOMAIN hashToBlockID
                  /\ equalTokens(blocks[hashToBlockID[hash]].Tokens, tokens)
    IN  IF i >= numBlocks THEN 0
        ELSE IF hit THEN FreeBlocksTaken(id, i + 1, known)
        ELSE 1 + FreeBlocksTaken(id, i + 1, known \cup {hash})

\* C23 (can_allocate discounts shared blocks): CanAllocate is true for a
\* waiting sequence whenever the free list has as many blocks as Allocate
\* would take for it, the chunks bound to existing blocks not counted.
C23_CanAllocateDiscount ==
    \A id \in DOMAIN seqs :
        (seqs[id].Status = SequenceStatusWaiting /\ Len(freeBlocks) >= FreeBlocksTaken(id, 0, {}))
            => CanAllocate(SchedState, id)

\* The tokens held by the blocks that are in use.
UsedBlockTokens == [b \in {x \in DOMAIN blocks : blocks[x].RefCount > 0} |-> blocks[b].Tokens]

\* C24 (prefill and decode are never mixed): a Schedule that returns a
\* prefill batch returns exactly the sequences it moved from the front of
\* waiting to the back of running, and changes no sequence that was running
\* and no token of a block in use; a Schedule that returns a decode batch
\* moves no sequence from waiting to running and returns only sequences
\* that were running.
C24_NeverMixed ==
    [][StepSchedule =>
          IF isPrefill'
          THEN /\ waitingQueue = batch' \o waitingQueue'
               /\ runningQueue' = runningQueue \o batch'
               /\ \A k \in 1 .. Len(runningQueue) : seqs'[runningQueue[k]] = seqs[runningQueue[k]]
               /\ \A b \in DOMAIN UsedBlockTokens : blocks'[b].Tokens = UsedBlockTokens[b]
          ELSE /\ \A k \in 1 .. Len(waitingQueue) : InQueue(waitingQueue', waitingQueue[k])
               /\ \A k \in 1 .. Len(runningQueue') : InQueue(runningQueue, runningQueue'[k])
               /\ \A k \in 1 .. Len(batch') : InQueue(runningQueue, batch'[k])]_vars

\* C24 witness: Schedule returned a prefill batch while another sequence
\* was running and was left out of the batch.
C24_Witness ==
    /\ pc = "scheduled"
    /\ isPrefill
    /\ \E k \in 1 .. Len(runningQueue) : ~InQueue(batch, runningQueue[k])

\* C25 (KV cache lockstep): for every call of Forward of the Run that Step
\* is about to make, the cache length before the call is the number of the
\* sequence's tokens already processed, and the cache length after the call
\* is the number of slots the sequence has filled in the block manager.
C25_CacheLockstep ==
    pc = "scheduled" =>
        LET calls == RunForwards(batch, isPrefill, cacheLen)
        IN  \A k \in 1 .. Len(calls) :
                /\ calls[k].before = calls[k].processed
                /\ calls[k].after = calls[k].filled

\* C26 (no duplicates in a batch): no sequence is twice in a batch that
\* Schedule returned.
C26_NoDuplicates ==
    pc = "scheduled" => \A i, j \in 1 .. Len(batch) : batch[i] = batch[j] => i = j

\* C27 (batch membership): when Schedule returns, every sequence of its
\* batch is Running, in the running queue, not in the waiting queue, and
\* has a block table that is not empty.
C27_BatchMembership ==
    pc = "scheduled" =>
        \A k \in 1 .. Len(batch) :
            /\ seqs[batch[k]].Status = SequenceStatusRunning
            /\ InQueue(runningQueue, batch[k])
            /\ ~InQueue(waitingQueue, batch[k])
            /\ seqs[batch[k]].BlockTable # <<>>

\* C28 (prefill is never empty): every sequence of a prefill batch that
\* Schedule returned has NumCachedTokens < NumTokens, so its prefill input
\* has a token.
C28_PrefillNotEmpty ==
    (pc = "scheduled" /\ isPrefill) =>
        \A k \in 1 .. Len(batch) :
            /\ seqs[batch[k]].NumCachedTokens < seqs[batch[k]].NumTokens
            /\ InputLen(seqs[batch[k]], TRUE) >= 1

\* The length of the leading run of entries of the block table t that are
\* blocks in use before the Allocate.
LeadingHits(t) ==
    CHOOSE k \in 0 .. Len(t) :
        /\ \A j \in 1 .. k : blocks[t[j]].RefCount > 0
        /\ k < Len(t) => blocks[t[k + 1]].RefCount = 0

\* C29 (cached tokens form a prefix): when Schedule admits one sequence,
\* NumCachedTokens is the number of its tokens in the leading run of reused
\* blocks; each of those blocks is held at the same position by a running
\* sequence with the same chunks up to it, and every later chunk is in a
\* newly taken block of its own.
C29_CachedPrefix ==
    [][\A id \in DOMAIN seqs :
           AdmitsOnly(id) =>
               LET t == seqs'[id].BlockTable
                   k == LeadingHits(t)
               IN  /\ seqs'[id].NumCachedTokens = Min(k * blockSize, seqs[id].NumTokens)
                   /\ \A j \in 1 .. k :
                          \E o \in DOMAIN seqs \ {id} :
                              /\ seqs[o].Status = SequenceStatusRunning
                              /\ Len(seqs[o].BlockTable) >= j
                              /\ seqs[o].BlockTable[j] = t[j]
                              /\ \A i \in 1 .. (j - 1) : blocks[seqs[o].BlockTable[i]].Tokens = Chunk(seqs[id], i)
                   /\ \A j \in (k + 1) .. Len(t) :
                          /\ blocks[t[j]].RefCount = 0
                          /\ \A i \in 1 .. (j - 1) : t[i] # t[j]]_vars

\* C30 (hash map integrity): every entry h -> id of hashToBlockID names a
\* block that is in use and not in the free list, whose Hash is h and is the
\* hash of its Tokens.
C30_HashMapIntegrity ==
    \A h \in DOMAIN hashToBlockID :
        LET id == hashToBlockID[h]
        IN  /\ blocks[id].RefCount > 0
            /\ ~InQueue(freeBlocks, id)
            /\ blocks[id].Hash = h
            /\ computeHash(blocks[id].Tokens) = h

\* C30 witness: two blocks in use with different tokens carry the same hash
\* (a collision), and hashToBlockID has the entry of one of them.
C30_Witness ==
    \E a, b \in DOMAIN blocks :
        /\ a # b
        /\ blocks[a].RefCount > 0 /\ blocks[b].RefCount > 0
        /\ blocks[a].Hash = blocks[b].Hash
        /\ blocks[a].Tokens # blocks[b].Tokens
        /\ blocks[a].Hash \in DOMAIN hashToBlockID
        /\ hashToBlockID[blocks[a].Hash] = a

====
